---- MODULE Spec2Model ----
(***************************************************************************)
(* A model of server3.py, the WebSocket introspection server of the UPBGE  *)
(* debugger.  One asyncio event loop, running on one thread, executes the  *)
(* connection handlers (handle_client) and the broadcast loop              *)
(* (broadcast_data).  The game engine mutates the scene from its own       *)
(* thread.  A step of the model is the code a task runs between two        *)
(* awaits; a task that has to be observed in the middle of such a stretch  *)
(* (the rotation read-then-write, the per-client snapshot builds of one    *)
(* gather) keeps the event loop until it reaches its await (LoopFree).     *)
(***************************************************************************)
EXTENDS Integers, Sequences, FiniteSets, TLC

(* ------------------------------ bounds --------------------------------- *)
\* number of connections that are ever accepted
NumConns == 2
\* inbound messages read by all handlers together
MaxMsgs == 2
\* broadcast ticks that find a non-empty registry
MaxTicks == 2
\* scene changes made by the engine's own thread
MaxSim == 1

Conns == 1..NumConns

(* ------------------------------ values --------------------------------- *)
\* floats are fixed-point integers, FP units to 1.0
FP == 10000
\* pi/180 as the fraction RadNum / RadDen (3.1416 / 180)
RadNum == 1309
RadDen == 75000

None == "None"
Absent == "<absent>"

\* 'xyz'.index(axis); 0 when the axis is none of them (ValueError in the code)
AxisIndex(axis) ==
    IF axis = "x" THEN 1 ELSE IF axis = "y" THEN 2 ELSE IF axis = "z" THEN 3 ELSE 0

\* float(raw): the strings and numbers the clients of the model send
NumericRaw == {"5.0", "90", "2.0", "1.2346", "1"}
IsNumeric(raw) == raw \in NumericRaw
ToFloat(raw) ==
    CASE raw = "5.0" -> 5 * FP
      [] raw = "90" -> 90 * FP
      [] raw = "2.0" -> 2 * FP
      [] raw = "1.2346" -> 12346
      [] raw = "1" -> FP
      [] OTHER -> 0

\* round(value, 3): to a multiple of FP/1000, ties to even
Round3(v) ==
    LET q == v \div 10
        r == v % 10
    IN  IF r > 5 \/ (r = 5 /\ q % 2 = 1) THEN (q + 1) * 10 ELSE q * 10

\* truncate(value, digits=3) on a typed value: floats are rounded, the rest
\* is returned unchanged
truncate(val) ==
    IF val.t = "float" THEN [t |-> "float", v |-> Round3(val.v)] ELSE val

\* truncate applied to each component of a vector of floats
truncate3(vec) == [i \in 1..3 |-> Round3(vec[i])]

\* math.radians and math.degrees in fixed point
radians(d) == (d * RadNum) \div RadDen
degrees(r) == (r * RadDen) \div RadNum

(* ------------------------------ the scene ------------------------------ *)
\* the objects of the scene; "Ghost" is a name no object has
SceneNames == {"Cube", "Sphere"}
GhostName == "Ghost"

InitObject ==
    [ position |-> <<0, 0, 0>>,
      rotation |-> <<0, 0, 0>>,
      scale    |-> <<FP, FP, FP>>,
      visible  |-> TRUE,
      game     |-> [ health |-> [t |-> "int", v |-> 100 * FP],
                      alive  |-> [t |-> "bool", b |-> TRUE],
                      tag    |-> [t |-> "str", s |-> "hero"] ] ]

InitScene == [n \in SceneNames |-> InitObject]

\* scene.objects.get(name): the object, or None
HasObject(sc, name) == name \in DOMAIN sc

\* obj.getPropertyNames()
PropertyNames(obj) == DOMAIN obj.game


(* ------------------------------ messages ------------------------------- *)
\* an inbound message after json.loads: a dict; a key the client left out
\* is Absent
Data(type, name, object, property, value, axis, speed) ==
    [ type |-> type, name |-> name, object |-> object, property |-> property,
      value |-> value, axis |-> axis, speed |-> speed ]

Simple(type) == Data(type, Absent, Absent, Absent, Absent, Absent, Absent)

\* a text frame that is no JSON document: json.loads raises
BadJson == Simple("<not json>")
NoData == Simple("<none>")

TargetNames == {"Cube", GhostName}

\* property, value and axis of the update requests of the model
UpdateFields ==
    { <<"position", "5.0", "x">>,
      <<"position", "abc", "y">>,
      <<"position", "1.2346", "z">>,
      <<"rotation", "90", "x">>,
      <<"rotation", "90", "y">>,
      <<"rotation", "abc", Absent>>,
      <<"scale", "2.0", "w">>,
      <<"health", "5.0", Absent>>,
      <<"alive", "true", Absent>>,
      <<"alive", "1", Absent>>,
      <<"tag", "abc", Absent>>,
      <<"nope", "5.0", Absent>>,
      <<Absent, "5.0", Absent>> }

UpdateRequests ==
    { Data("update_object_property", Absent, "Cube", pv[1], pv[2], pv[3], Absent) :
        pv \in UpdateFields }
    \cup { Data("update_object_property", Absent, o, "position", "5.0", "x", Absent) :
        o \in {GhostName, Absent} }

\* the messages the clients of the model send
Requests ==
    { Simple(t) : t \in { "get_objects", "get_game_info", "toggle_physics_debug",
                          "toggle_mouse", "restart_game", "end_game", "bogus" } }
    \cup { Data("get_object_properties", n, Absent, Absent, Absent, Absent, Absent) :
             n \in TargetNames \cup {Absent} }
    \cup { Data("toggle_visibility", Absent, o, Absent, Absent, Absent, Absent) :
             o \in TargetNames \cup {Absent} }
    \cup { Data("set_game_speed", Absent, Absent, Absent, Absent, Absent, s) :
             s \in {"2.0", "1", "fast", Absent} }
    \cup UpdateRequests
    \cup {BadJson}

\* outbound messages
NoMsg == [type |-> "none"]
NotFound(name) == [kind |-> "not found", name |-> name]
Fault(what) == [kind |-> "exception", name |-> what]
ErrorMsg(text) == [type |-> "error", message |-> text]

\* {"type": "objects", "data": [{"name": obj.name} for obj in scene.objects]}
ObjectsMsg(sc) == [type |-> "objects", data |-> DOMAIN sc]

\* the properties dict send_object_properties builds for one object
Snapshot(obj) ==
    [ position  |-> truncate3(obj.position),
      rotation  |-> [i \in 1..3 |-> Round3(degrees(obj.rotation[i]))],
      scale     |-> truncate3(obj.scale),
      physics   |-> "Not applicable",
      game      |-> [k \in PropertyNames(obj) |-> truncate(obj.game[k])],
      materials |-> <<"Not applicable">> ]

\* the message send_object_properties sends for object_name
PropertiesMsg(sc, object_name) ==
    IF HasObject(sc, object_name)
    THEN [type |-> "object_properties", data |-> Snapshot(sc[object_name])]
    ELSE ErrorMsg(NotFound(object_name))

(* ------------------------------ state ---------------------------------- *)
VARIABLES
    clients,            \* the module-level set of registered websockets
    selected_object,    \* the module-level selection, None at start
    mouse_visible,      \* the module-level mouse flag
    scene,              \* bge.logic.getCurrentScene().objects
    timeScale,          \* bge.logic.getTimeScale()
    engineCmd,          \* the last of restartGame() / endGame() invoked
    pc,                 \* position of each connection's handle_client
    chan,               \* state of each connection's transport
    data,               \* the message a handler is dispatching
    resp,               \* the message a handler is about to send
    current_rotation,   \* the local of update_object_property
    bpc,                \* position of broadcast_data
    fanout,             \* the clients the running gather was built over
    pending,            \* tasks of the running gather that have not run yet
    object_list_message,\* the local of broadcast_data
    gatherFailed,       \* a task of the running gather raised
    tickObjs,           \* clients delivered the `objects` message this tick
    tickProps,          \* per client, what the props gather of this tick delivered
    exitCause,          \* how each handler ended
    selectedBy,         \* the connection whose request made the selection
    mouseToggles,       \* the toggle_mouse requests dispatched so far
    tickSelection,      \* the selection when the running tick began
    msgs, ticks, sims   \* steps taken so far, against the bounds

shared == <<clients, selected_object, mouse_visible, scene, timeScale, engineCmd>>
locals == <<pc, chan, data, resp, current_rotation>>
bcast == <<bpc, fanout, pending, object_list_message, gatherFailed>>
record == <<tickObjs, tickProps, exitCause, selectedBy, mouseToggles, tickSelection>>
counters == <<msgs, ticks, sims>>
vars == <<shared, locals, bcast, record, counters>>

NoRotation == <<0, 0, 0>>

Init ==
    /\ clients = {}
    /\ selected_object = None
    /\ mouse_visible = TRUE
    /\ scene = InitScene
    /\ timeScale = FP
    /\ engineCmd = "none"
    /\ pc = [c \in Conns |-> "idle"]
    /\ chan = [c \in Conns |-> "none"]
    /\ data = [c \in Conns |-> NoData]
    /\ resp = [c \in Conns |-> NoMsg]
    /\ current_rotation = [c \in Conns |-> NoRotation]
    /\ bpc = "sleep"
    /\ fanout = {}
    /\ pending = {}
    /\ object_list_message = NoMsg
    /\ gatherFailed = FALSE
    /\ tickObjs = {}
    /\ tickProps = [c \in Conns |-> NoMsg]
    /\ exitCause = [c \in Conns |-> "none"]
    /\ selectedBy = 0
    /\ mouseToggles = 0
    /\ tickSelection = None
    /\ msgs = 0
    /\ ticks = 0
    /\ sims = 0


(* ------------------------------ the event loop ------------------------- *)
\* run_server runs every task on one event loop in one thread: a task runs
\* from one await to the next with no other task in between.  The loop stops
\* for good when server() returns, which it does when broadcast_data raises.
LoopRunning == bpc # "dead"

\* handlers and broadcast on threads of their own: a task starts a step
\* whatever the other tasks are in the middle of
LoopFreeThreaded == LoopRunning

\* no task is in the middle of a stretch of code: the loop can start a step
\* of another task
LoopFree ==
    /\ LoopRunning
    /\ bpc # "props"
    /\ \A c \in Conns : pc[c] # "rot_write"

\* websocket.send(msg) on connection c succeeds while its transport is open
CanSend(c) == chan[c] = "open"

(* ------------------------------ handle_client -------------------------- *)
\* the handler reaches `await websocket.send(msg)` with its response built
Respond(c, msg) ==
    /\ pc' = [pc EXCEPT ![c] = "send"]
    /\ resp' = [resp EXCEPT ![c] = msg]
    /\ UNCHANGED <<clients, chan, exitCause>>

\* the finally clause: clients.remove(websocket), then the handler is over
Unregister(c) == clients \ {c}

\* the unregister step in the except clause instead of a finally clause: an
\* exception the except clause does not name skips it
RaiseSkippingUnregister(c) ==
    /\ pc' = [pc EXCEPT ![c] = "done"]
    /\ chan' = [chan EXCEPT ![c] = "closed"]
    /\ exitCause' = [exitCause EXCEPT ![c] = "fault"]
    /\ UNCHANGED <<clients, resp>>

\* an exception other than ConnectionClosedError leaves the loop body: the
\* finally clause runs, the handler ends, the library closes the connection
Raise(c) ==
    /\ pc' = [pc EXCEPT ![c] = "done"]
    /\ clients' = Unregister(c)
    /\ chan' = [chan EXCEPT ![c] = "closed"]
    /\ exitCause' = [exitCause EXCEPT ![c] = "fault"]
    /\ UNCHANGED resp

\* a connection is accepted: handle_client starts, registers the websocket
\* and waits for the first message
Accept(c) ==
    /\ LoopFree
    /\ pc[c] = "idle"
    /\ \A d \in Conns : d < c => pc[d] # "idle"
    /\ clients' = clients \cup {c}
    /\ pc' = [pc EXCEPT ![c] = "recv"]
    /\ chan' = [chan EXCEPT ![c] = "open"]
    /\ UNCHANGED <<selected_object, mouse_visible, scene, timeScale, engineCmd>>
    /\ UNCHANGED <<data, resp, current_rotation>>
    /\ UNCHANGED <<bcast, record, counters>>

\* the peer closes the connection, or the connection is lost
PeerClose(c) ==
    /\ chan[c] = "open"
    /\ chan' = [chan EXCEPT ![c] = "closed"]
    /\ UNCHANGED <<pc, data, resp, current_rotation>>
    /\ UNCHANGED <<shared, bcast, record, counters>>

\* the receive loop finds the connection closed: the iteration ends, or
\* ConnectionClosedError is caught; the finally clause unregisters
HandlerExit(c) ==
    /\ LoopFree
    /\ pc[c] = "recv"
    /\ chan[c] = "closed"
    /\ pc' = [pc EXCEPT ![c] = "done"]
    /\ clients' = Unregister(c)
    /\ exitCause' = [exitCause EXCEPT ![c] = "close"]
    /\ UNCHANGED <<selected_object, mouse_visible, scene, timeScale, engineCmd>>
    /\ UNCHANGED <<chan, data, resp, current_rotation>>
    /\ UNCHANGED <<bcast, tickObjs, tickProps, selectedBy, mouseToggles, tickSelection, counters>>

\* `await websocket.send(...)` of a handler completes: the response is
\* delivered and the handler waits for the next message, or the send raises
\* ConnectionClosed and the handler ends through the finally clause.  The
\* locals of the finished request are dead and are reset.
SendResponse(c) ==
    /\ LoopFree
    /\ pc[c] = "send"
    /\ IF CanSend(c)
       THEN /\ pc' = [pc EXCEPT ![c] = "recv"]
            /\ UNCHANGED <<clients, exitCause>>
       ELSE /\ pc' = [pc EXCEPT ![c] = "done"]
            /\ clients' = Unregister(c)
            /\ exitCause' = [exitCause EXCEPT ![c] = "close"]
    /\ data' = [data EXCEPT ![c] = NoData]
    /\ resp' = [resp EXCEPT ![c] = NoMsg]
    /\ current_rotation' = [current_rotation EXCEPT ![c] = NoRotation]
    /\ UNCHANGED <<selected_object, mouse_visible, scene, timeScale, engineCmd>>
    /\ UNCHANGED chan
    /\ UNCHANGED <<bcast, tickObjs, tickProps, selectedBy, mouseToggles, tickSelection, counters>>


(* ------------------------------ request functions ---------------------- *)
\* data.get('axis', 'x')
AxisOf(d) == IF d.axis = Absent THEN "x" ELSE d.axis

\* isinstance(value, (int, float)): a Python bool is an int
IsIntOrFloat(val) == val.t \in {"int", "float", "bool"}

\* new_value.lower() in ('true', '1', 'yes')
IsTrueLiteral(raw) == raw \in {"true", "True", "TRUE", "1", "yes", "Yes", "YES"}

\* the axis of the request is not looked at
WithAxisFirst(vec, i, v) == [vec EXCEPT ![1] = v]

\* a vector with one component replaced
WithAxis(vec, i, v) == [vec EXCEPT ![i] = v]

OnlyScene ==
    UNCHANGED <<selected_object, mouse_visible, timeScale, engineCmd, current_rotation>>

NoSharedChange ==
    UNCHANGED <<selected_object, mouse_visible, scene, timeScale, engineCmd, current_rotation>>

send_objects(c) ==
    /\ Respond(c, ObjectsMsg(scene))
    /\ NoSharedChange

\* the selection recorded only for a name the scene has
get_object_properties_if_found(c, d) ==
    IF d.name = Absent
    THEN Raise(c) /\ NoSharedChange
    ELSE /\ selected_object' = IF HasObject(scene, d.name) THEN d.name ELSE selected_object
         /\ Respond(c, PropertiesMsg(scene, d.name))
         /\ UNCHANGED <<mouse_visible, scene, timeScale, engineCmd, current_rotation>>

\* the branch of handle_client for get_object_properties, with
\* send_object_properties up to its send
get_object_properties(c, d) ==
    IF d.name = Absent
    THEN Raise(c) /\ NoSharedChange
    ELSE /\ selected_object' = d.name
         /\ Respond(c, PropertiesMsg(scene, d.name))
         /\ UNCHANGED <<mouse_visible, scene, timeScale, engineCmd, current_rotation>>

\* the object is shown, whatever it was
toggle_object_visibility_show(c, object_name) ==
    IF HasObject(scene, object_name)
    THEN /\ scene' = [scene EXCEPT ![object_name].visible = TRUE]
         /\ Respond(c, [type |-> "visibility_updated", object |-> object_name,
                        visible |-> TRUE])
         /\ OnlyScene
    ELSE /\ Respond(c, ErrorMsg(NotFound(object_name)))
         /\ NoSharedChange

toggle_object_visibility(c, object_name) ==
    IF HasObject(scene, object_name)
    THEN /\ scene' = [scene EXCEPT ![object_name].visible = ~@]
         /\ Respond(c, [type |-> "visibility_updated", object |-> object_name,
                        visible |-> ~scene[object_name].visible])
         /\ OnlyScene
    ELSE /\ Respond(c, ErrorMsg(NotFound(object_name)))
         /\ NoSharedChange

toggle_visibility(c, d) ==
    IF d.object = Absent
    THEN Raise(c) /\ NoSharedChange
    ELSE toggle_object_visibility(c, d.object)

send_game_info(c) ==
    /\ Respond(c, [type |-> "game_info", game_speed |-> timeScale,
                   mouse_visible |-> mouse_visible])
    /\ NoSharedChange

\* the response carries the number the engine was given, printed anew
set_game_speed_reprinted(c, d) ==
    IF d.speed = Absent \/ ~IsNumeric(d.speed)
    THEN Raise(c) /\ NoSharedChange
    ELSE /\ timeScale' = ToFloat(d.speed)
         /\ Respond(c, [type |-> "game_speed_updated",
                        speed |-> IF d.speed = "1" THEN "1.0" ELSE d.speed])
         /\ UNCHANGED <<selected_object, mouse_visible, scene, engineCmd, current_rotation>>

\* float(speed) raises outside any try of the handler
set_game_speed(c, d) ==
    IF d.speed = Absent \/ ~IsNumeric(d.speed)
    THEN Raise(c) /\ NoSharedChange
    ELSE /\ timeScale' = ToFloat(d.speed)
         /\ Respond(c, [type |-> "game_speed_updated", speed |-> d.speed])
         /\ UNCHANGED <<selected_object, mouse_visible, scene, engineCmd, current_rotation>>

\* the debug drawing is reported as switched
toggle_physics_debug_switched(c) ==
    /\ Respond(c, [type |-> "physics_debug_updated"])
    /\ NoSharedChange

toggle_physics_debug(c) ==
    /\ Respond(c, ErrorMsg(Fault("Physics debug visualization is not available")))
    /\ NoSharedChange

\* the mouse is hidden, whatever it was
toggle_mouse_hide(c) ==
    /\ mouse_visible' = FALSE
    /\ Respond(c, [type |-> "mouse_visibility_updated", visible |-> FALSE])
    /\ UNCHANGED <<selected_object, scene, timeScale, engineCmd, current_rotation>>

toggle_mouse(c) ==
    /\ mouse_visible' = ~mouse_visible
    /\ Respond(c, [type |-> "mouse_visibility_updated", visible |-> ~mouse_visible])
    /\ UNCHANGED <<selected_object, scene, timeScale, engineCmd, current_rotation>>

restart_game(c) ==
    /\ engineCmd' = "restart"
    /\ Respond(c, [type |-> "game_restarted"])
    /\ UNCHANGED <<selected_object, mouse_visible, scene, timeScale, current_rotation>>

end_game(c) ==
    /\ engineCmd' = "end"
    /\ Respond(c, [type |-> "game_ended"])
    /\ UNCHANGED <<selected_object, mouse_visible, scene, timeScale, current_rotation>>

\* the except clause of update_object_property
UpdateError(c, what) ==
    /\ Respond(c, ErrorMsg(Fault(what)))
    /\ UNCHANGED scene

UpdateSuccess(c, sc) ==
    /\ scene' = sc
    /\ Respond(c, [type |-> "update_success"])

\* position and scale: setattr(vector, axis, float(new_value)), written back
UpdateVector(c, d, field) ==
    LET i == AxisIndex(AxisOf(d))
        obj == scene[d.object]
    IN  IF ~IsNumeric(d.value) THEN UpdateError(c, "ValueError")
        ELSE IF i = 0 THEN UpdateError(c, "AttributeError")
        ELSE UpdateSuccess(c,
                 [scene EXCEPT ![d.object][field] = WithAxis(obj[field], i, ToFloat(d.value))])

\* any other property: coerced to the type of the stored value
UpdateGameProperty(c, d) ==
    LET obj == scene[d.object]
        Store(val) == [scene EXCEPT ![d.object].game[d.property] = val]
    IN  IF d.property \notin PropertyNames(obj) THEN UpdateError(c, "KeyError")
        ELSE IF IsIntOrFloat(obj.game[d.property])
        THEN IF IsNumeric(d.value)
             THEN UpdateSuccess(c, Store([t |-> "float", v |-> ToFloat(d.value)]))
             ELSE UpdateError(c, "ValueError")
        ELSE IF obj.game[d.property].t = "bool"
        THEN UpdateSuccess(c, Store([t |-> "bool", b |-> IsTrueLiteral(d.value)]))
        ELSE UpdateSuccess(c, Store([t |-> "str", s |-> d.value]))

\* update_object_property up to its send; for a rotation, up to the read of
\* the Euler triple (line 233), the rest being RotationWrite
update_object_property(c, d) ==
    IF d.object = Absent
    THEN Raise(c) /\ NoSharedChange
    ELSE IF ~HasObject(scene, d.object)
    THEN Respond(c, ErrorMsg(NotFound(d.object))) /\ NoSharedChange
    ELSE IF d.property = Absent \/ d.value = Absent
    THEN UpdateError(c, "KeyError") /\ OnlyScene
    ELSE IF d.property = "rotation"
    THEN /\ current_rotation' = [current_rotation EXCEPT ![c] = scene[d.object].rotation]
         /\ pc' = [pc EXCEPT ![c] = "rot_write"]
         /\ UNCHANGED <<clients, chan, exitCause, resp>>
         /\ UNCHANGED <<selected_object, mouse_visible, scene, timeScale, engineCmd>>
    ELSE IF d.property \in {"position", "scale"}
    THEN UpdateVector(c, d, d.property) /\ OnlyScene
    ELSE UpdateGameProperty(c, d) /\ OnlyScene

\* lines 234-236 and the send that follows: the orientation is rebuilt from
\* the triple read, with the requested axis replaced.  The orientation of an
\* object is represented by the Euler triple (radians) it is built from.
RotationWrite(c) ==
    LET d == data[c]
        i == AxisIndex(AxisOf(d))
    IN  /\ LoopRunning
        /\ pc[c] = "rot_write"
        /\ IF i = 0 \/ ~IsNumeric(d.value)
           THEN UpdateError(c, "ValueError")
           ELSE UpdateSuccess(c,
                    [scene EXCEPT ![d.object].rotation =
                        WithAxis(current_rotation[c], i, radians(ToFloat(d.value)))])
        /\ OnlyScene
        /\ UNCHANGED <<data, bcast, tickObjs, tickProps, selectedBy, mouseToggles, tickSelection, counters>>

\* the chain ends in an else that answers an unknown type with an error
DispatchAnswering(c, d) ==
    CASE d = BadJson -> Raise(c) /\ NoSharedChange
      [] d.type = "get_objects" -> send_objects(c)
      [] d.type = "get_object_properties" -> get_object_properties(c, d)
      [] d.type = "update_object_property" -> update_object_property(c, d)
      [] d.type = "toggle_visibility" -> toggle_visibility(c, d)
      [] d.type = "get_game_info" -> send_game_info(c)
      [] d.type = "set_game_speed" -> set_game_speed(c, d)
      [] d.type = "toggle_physics_debug" -> toggle_physics_debug(c)
      [] d.type = "toggle_mouse" -> toggle_mouse(c)
      [] d.type = "restart_game" -> restart_game(c)
      [] d.type = "end_game" -> end_game(c)
      [] OTHER -> Respond(c, ErrorMsg(Fault("unknown type"))) /\ NoSharedChange

\* the if/elif chain of handle_client
Dispatch(c, d) ==
    CASE d = BadJson -> Raise(c) /\ NoSharedChange
      [] d.type = "get_objects" -> send_objects(c)
      [] d.type = "get_object_properties" -> get_object_properties(c, d)
      [] d.type = "update_object_property" -> update_object_property(c, d)
      [] d.type = "toggle_visibility" -> toggle_visibility(c, d)
      [] d.type = "get_game_info" -> send_game_info(c)
      [] d.type = "set_game_speed" -> set_game_speed(c, d)
      [] d.type = "toggle_physics_debug" -> toggle_physics_debug(c)
      [] d.type = "toggle_mouse" -> toggle_mouse(c)
      [] d.type = "restart_game" -> restart_game(c)
      [] d.type = "end_game" -> end_game(c)
      [] OTHER -> /\ UNCHANGED <<pc, resp, clients, chan, exitCause>>
                  /\ NoSharedChange

\* a handler spawns no task per message
AwaitingMessageOrSending(c) == pc[c] \in {"recv", "send"}

\* the handler is suspended in `async for message in websocket` (line 56),
\* which it reaches again only when the branch of the last message returned
AwaitingMessage(c) == pc[c] = "recv"

\* the receive loop reads one message and runs its branch up to the await
Receive(c) ==
    /\ LoopFree
    /\ AwaitingMessage(c)
    /\ chan[c] = "open"
    /\ msgs < MaxMsgs
    /\ \E d \in Requests :
        /\ data' = [data EXCEPT ![c] = d]
        /\ Dispatch(c, d)
        /\ mouseToggles' = IF d.type = "toggle_mouse" THEN mouseToggles + 1 ELSE mouseToggles
    /\ msgs' = msgs + 1
    /\ selectedBy' = IF selected_object' # selected_object THEN c ELSE selectedBy
    /\ UNCHANGED <<bcast, tickObjs, tickProps, tickSelection, ticks, sims>>


(* ------------------------------ the engine ----------------------------- *)
\* the engine advances the simulation on its own thread: an object moves
SimStep ==
    /\ sims < MaxSim
    /\ scene' = [scene EXCEPT !["Cube"].position[3] = @ + FP]
    /\ sims' = sims + 1
    /\ UNCHANGED <<clients, selected_object, mouse_visible, timeScale, engineCmd>>
    /\ UNCHANGED <<locals, bcast, record, msgs, ticks>>

(* ------------------------------ broadcast_data ------------------------- *)
\* the truth value of selected_object in `if selected_object:`
SelectionSet == selected_object # None /\ selected_object # ""

\* every connection ever accepted is sent to
GatherOverAccepted == {c \in Conns : chan[c] # "none"}

\* [... for client in clients]: the clients a gather is built over
GatherOver == clients

\* a tick begins with a non-empty registry: the object list message is
\* built and one send per client is handed to asyncio.gather (line 263).
\* With an empty registry the tick only sleeps again, which changes nothing.
TickStart ==
    /\ LoopFree
    /\ bpc = "sleep"
    /\ clients # {}
    /\ ticks < MaxTicks
    /\ object_list_message' = ObjectsMsg(scene)
    /\ fanout' = GatherOver
    /\ pending' = GatherOver
    /\ gatherFailed' = FALSE
    /\ bpc' = "objs"
    /\ tickObjs' = {}
    /\ tickProps' = [c \in Conns |-> NoMsg]
    /\ tickSelection' = selected_object
    /\ ticks' = ticks + 1
    /\ UNCHANGED <<shared, locals, exitCause, selectedBy, mouseToggles, msgs, sims>>

\* what broadcast_data does when awaited gather is over: gather was called
\* without return_exceptions, so the exception of a failed send is raised in
\* broadcast_data, which has no handler for it
AfterGather(failed, next) == IF failed THEN "dead" ELSE next

\* the sends of the first gather run, one after the other with no other task
\* in between: each delivers the message or raises ConnectionClosed
ObjsGather ==
    /\ LoopFree
    /\ bpc = "objs"
    /\ LET ok == {c \in fanout : CanSend(c)}
       IN  /\ tickObjs' = ok
           /\ bpc' = AfterGather(ok # fanout, "between")
           /\ gatherFailed' = (ok # fanout)
    /\ pending' = {}
    /\ UNCHANGED <<shared, locals, fanout, object_list_message, tickProps, exitCause>>
    /\ UNCHANGED <<selectedBy, mouseToggles, tickSelection, counters>>

\* broadcast_data resumes after the first gather (line 266): without a
\* selection it sleeps; with one it builds the second gather over the
\* registry as it is now
TickResume ==
    /\ LoopFree
    /\ bpc = "between"
    /\ IF SelectionSet /\ GatherOver # {}
       THEN /\ fanout' = GatherOver
            /\ pending' = GatherOver
            /\ bpc' = "props"
       ELSE /\ bpc' = "sleep"
            /\ UNCHANGED <<fanout, pending>>
    /\ UNCHANGED <<shared, locals, object_list_message, gatherFailed, record, counters>>

\* one task of the second gather: send_object_properties(client,
\* selected_object) reads the scene, builds its own message and sends it
PropsTask(c) ==
    /\ LoopRunning
    /\ bpc = "props"
    /\ c \in pending
    /\ pending' = pending \ {c}
    /\ LET msg == PropertiesMsg(scene, selected_object)
       IN  IF CanSend(c)
           THEN /\ tickProps' = [tickProps EXCEPT ![c] = msg]
                /\ UNCHANGED gatherFailed
           ELSE /\ gatherFailed' = TRUE
                /\ UNCHANGED tickProps
    /\ UNCHANGED <<shared, locals, bpc, fanout, object_list_message, tickObjs, exitCause>>
    /\ UNCHANGED <<selectedBy, mouseToggles, tickSelection, counters>>

\* every task of the second gather has run: broadcast_data sleeps, or ends
\* with the exception of a failed send
PropsDone ==
    /\ LoopRunning
    /\ bpc = "props"
    /\ pending = {}
    /\ bpc' = AfterGather(gatherFailed, "sleep")
    /\ UNCHANGED <<shared, locals, fanout, pending, object_list_message, gatherFailed>>
    /\ UNCHANGED <<record, counters>>

(* ------------------------------ specification -------------------------- *)
Next ==
    \/ \E c \in Conns : Accept(c)
    \/ \E c \in Conns : PeerClose(c)
    \/ \E c \in Conns : Receive(c)
    \/ \E c \in Conns : RotationWrite(c)
    \/ \E c \in Conns : SendResponse(c)
    \/ \E c \in Conns : HandlerExit(c)
    \/ SimStep
    \/ TickStart
    \/ ObjsGather
    \/ TickResume
    \/ \E c \in Conns : PropsTask(c)
    \/ PropsDone

Spec == Init /\ [][Next]_vars

\* the request routers alone: connections and their handlers, while the
\* broadcast loop sleeps and the engine leaves the scene alone
NextRouter ==
    \/ \E c \in Conns : Accept(c)
    \/ \E c \in Conns : PeerClose(c)
    \/ \E c \in Conns : Receive(c)
    \/ \E c \in Conns : RotationWrite(c)
    \/ \E c \in Conns : SendResponse(c)
    \/ \E c \in Conns : HandlerExit(c)

SpecRouter == Init /\ [][NextRouter]_vars


(* ------------------------------ claims --------------------------------- *)
KnownTypes ==
    { "get_objects", "get_object_properties", "update_object_property",
      "toggle_visibility", "get_game_info", "set_game_speed",
      "toggle_physics_debug", "toggle_mouse", "restart_game", "end_game" }

\* a message of a known type that lacks a field its branch reads
MissingField(d) ==
    \/ d.type = "get_object_properties" /\ d.name = Absent
    \/ d.type \in {"update_object_property", "toggle_visibility"} /\ d.object = Absent
    \/ d.type = "update_object_property" /\ (d.property = Absent \/ d.value = Absent)
    \/ d.type = "set_game_speed" /\ d.speed = Absent

\* set_game_speed with a speed that is no number
BadSpeed(d) == d.type = "set_game_speed" /\ d.speed # Absent /\ ~IsNumeric(d.speed)

\* the handler of c is past the dispatch of the message it read
Dispatched(c) == pc[c] \in {"send", "done"} /\ data[c] # NoData

\* C1: a fault raised while dispatching a well-formed message of a known type
\* (a non-numeric speed, a missing required field) is answered with an
\* `error` message to the requester, and the connection stays registered
\* with its handler still running.
C1_DispatchFaultAnswered ==
    \A c \in Conns :
        (Dispatched(c) /\ data[c].type \in KnownTypes
            /\ (MissingField(data[c]) \/ BadSpeed(data[c])))
        => (pc[c] = "send" /\ resp[c].type = "error" /\ c \in clients)

\* C2: when a send of a tick has failed and the tick is over, a client that
\* was sent the tick's `objects` message and is still registered and open
\* has also been sent the tick's `object_properties` message if a selection
\* is set.
C2_SendFailureIsolated ==
    (bpc \in {"sleep", "dead"} /\ gatherFailed /\ SelectionSet)
    => \A c \in tickObjs :
          (c \in clients /\ CanSend(c)) => tickProps[c].type # "none"

\* C3: no fault after startup terminates the broadcast loop: broadcast_data
\* never ends.
C3_BroadcastLoopSurvives == bpc # "dead"

\* C4: a connection whose handler has finished is not in the registry, and
\* the step that finishes a handler removes that client and no other.
C4_FinishedHandlerUnregistered ==
    /\ [](\A c \in Conns : pc[c] = "done" => c \notin clients)
    /\ [][\A c \in Conns :
            (pc[c] # "done" /\ pc'[c] = "done") => clients' = clients \ {c}]_vars

\* C4 witness: a handler has ended on a fault raised inside the receive loop
\* while another client is registered
C4_Witness ==
    \E c \in Conns :
        /\ pc[c] = "done"
        /\ exitCause[c] = "fault"
        /\ c \notin clients
        /\ clients # {}

\* C5: the `object_properties` messages one tick delivers to two clients
\* carry the same payload.
C5_SamePayloadToAll ==
    \A c1, c2 \in Conns :
        (tickProps[c1].type = "object_properties"
            /\ tickProps[c2].type = "object_properties")
        => tickProps[c1] = tickProps[c2]

\* the clients the props gather of the last tick delivered a message to
PropsTo == {c \in Conns : tickProps[c].type # "none"}

\* C6: a tick fans out over one stable copy of the registry: when a tick
\* that sent `object_properties` is over without a failed send, the clients
\* sent `object_properties` are the clients sent `objects`.
C6_StableFanout ==
    (bpc = "sleep" /\ ~gatherFailed /\ PropsTo # {}) => PropsTo = tickObjs

\* connection c reads a message in this step
Received(c) == msgs' = msgs + 1 /\ pc[c] = "recv" /\ data'[c] # data[c]

\* the object name a request is about
RequestedName(d) == IF d.type = "get_object_properties" THEN d.name ELSE d.object

\* C7: for an object name not in the scene, get_object_properties,
\* update_object_property and toggle_visibility each answer the requester
\* with an `error` message naming the object, leave the scene unchanged, and
\* change the selection only for get_object_properties, where it becomes the
\* requested name.
C7_UnknownObjectIsError ==
    [][\A c \in Conns :
        (/\ Received(c)
         /\ data'[c].type \in {"get_object_properties", "update_object_property",
                               "toggle_visibility"}
         /\ RequestedName(data'[c]) # Absent
         /\ ~HasObject(scene, RequestedName(data'[c])))
        => /\ pc'[c] = "send"
           /\ resp'[c] = ErrorMsg(NotFound(RequestedName(data'[c])))
           /\ scene' = scene
           /\ selected_object' =
                IF data'[c].type = "get_object_properties"
                THEN data'[c].name ELSE selected_object]_vars

\* C7 witness: a get_object_properties for a name the scene does not have is
\* about to be answered, and the selection is that name
C7_Witness ==
    \E c \in Conns :
        /\ pc[c] = "send"
        /\ data[c].type = "get_object_properties"
        /\ data[c].name = GhostName
        /\ resp[c].type = "error"
        /\ selected_object = GhostName

\* C8: a client is sent an `error` message only in response to a request of
\* its own: the broadcast never delivers an `error` to a client that did not
\* make the selection.
C8_ErrorOnlyToRequester ==
    \A c \in Conns : tickProps[c].type = "error" => selectedBy = c

\* C9: on a tick that begins and ends with the same selection, naming an
\* object of the scene, every client that was sent the tick's `objects`
\* message and is still registered and open is sent the object's
\* `object_properties` snapshot.
C9_SelectionBroadcastToAll ==
    (/\ bpc \in {"sleep", "dead"}
     /\ ticks > 0
     /\ tickSelection = selected_object
     /\ HasObject(scene, tickSelection))
    => \A c \in tickObjs :
          (c \in clients /\ CanSend(c)) => tickProps[c].type = "object_properties"

\* the axes other than the one a rotation update names
OtherAxes(d) == (1..3) \ {AxisIndex(AxisOf(d))}

\* C10: between the read of the Euler triple and the write of the rebuilt
\* orientation no other task of the server takes a step (no other update, no
\* snapshot read, no broadcast): the rotation of the object is still the
\* triple read, and the write leaves the other two axes at the values read.
C10_RotationUpdateAtomic ==
    /\ [](\A c \in Conns : pc[c] = "rot_write" =>
            /\ scene[data[c].object].rotation = current_rotation[c]
            /\ bpc # "props"
            /\ \A d \in Conns \ {c} : pc[d] # "rot_write")
    /\ [][\A c \in Conns :
            /\ (pc[c] = "rot_write" /\ pc'[c] = "rot_write")
                => UNCHANGED <<pc, data, resp, bcast, tickObjs, tickProps,
                               clients, selected_object, msgs, ticks>>
            /\ (pc[c] = "rot_write" /\ pc'[c] = "send"
                    /\ resp'[c].type = "update_success")
                => \A i \in OtherAxes(data[c]) :
                      /\ scene'[data[c].object].rotation[i] = current_rotation[c][i]
                      /\ scene'[data[c].object].rotation[i]
                            = scene[data[c].object].rotation[i]]_vars

\* C10 witness: two connections have each updated one rotation axis of the
\* same object, both updates succeeded, and both axes hold the new value
C10_Witness ==
    \E c, d \in Conns :
        /\ c # d
        /\ pc[c] = "send" /\ pc[d] = "send"
        /\ data[c].property = "rotation" /\ data[d].property = "rotation"
        /\ data[c].axis # data[d].axis
        /\ resp[c].type = "update_success" /\ resp[d].type = "update_success"
        /\ scene[data[c].object].rotation[1] # 0
        /\ scene[data[c].object].rotation[2] # 0

\* connection c takes a message off its socket in this step
Reads(c) == msgs' = msgs + 1 /\ data'[c] # data[c]

\* C11: the messages of one connection are handled one after the other: a
\* handler takes its next message only when it is back at the receive with
\* the message before fully handled, its response sent; while a response is
\* pending the handler's message does not change.  Steps of other handlers
\* and of the broadcast loop may come in between.
C11_OneMessageAtATime ==
    [][\A c \in Conns :
        /\ Reads(c) => (pc[c] = "recv" /\ resp[c] = NoMsg)
        /\ pc[c] \in {"send", "rot_write"} => (data'[c] = data[c] \/ pc'[c] \in {"recv", "done"})]_vars

\* C11 witness: one connection is sending the response to its second
\* message while a broadcast tick is under way; no other connection exists
C11_Witness ==
    /\ msgs = 2
    /\ pc[1] = "send"
    /\ pc[2] = "idle"
    /\ bpc = "between"

\* an update of one axis of the position of an object the scene has, with a
\* value that is a number
PositionUpdate(d) ==
    /\ d.type = "update_object_property"
    /\ d.property = "position"
    /\ HasObject(scene, d.object)
    /\ d.axis \in {"x", "y", "z"}
    /\ IsNumeric(d.value)

\* C12: an update of one axis of the position of an existing object writes
\* that component and nothing else (the other two components, the rotation,
\* the scale, the visibility, the game properties and every other object
\* stay as they were) and is answered `update_success`; a
\* get_object_properties reports each position component rounded to 3
\* decimals, so a read that follows the write reports the written value
\* rounded to 3 decimals.
C12_PositionUpdateFrame ==
    [][\A c \in Conns :
        /\ (Received(c) /\ PositionUpdate(data'[c])) =>
              LET d == data'[c]
                  o == d.object
                  i == AxisIndex(d.axis)
              IN  /\ pc'[c] = "send"
                  /\ resp'[c] = [type |-> "update_success"]
                  /\ scene'[o].position[i] = ToFloat(d.value)
                  /\ \A j \in (1..3) \ {i} : scene'[o].position[j] = scene[o].position[j]
                  /\ scene'[o].rotation = scene[o].rotation
                  /\ scene'[o].scale = scene[o].scale
                  /\ scene'[o].visible = scene[o].visible
                  /\ scene'[o].game = scene[o].game
                  /\ DOMAIN scene' = DOMAIN scene
                  /\ \A n \in DOMAIN scene \ {o} : scene'[n] = scene[n]
        /\ (Received(c) /\ data'[c].type = "get_object_properties"
                /\ HasObject(scene, data'[c].name)) =>
              /\ resp'[c].type = "object_properties"
              /\ \A i \in 1..3 :
                    resp'[c].data.position[i] = Round3(scene[data'[c].name].position[i])
        /\ \A w \in Conns \ {c} :
              (/\ pc[w] = "send" /\ PositionUpdate(data[w])
               /\ resp[w].type = "update_success"
               /\ scene[data[w].object].position[AxisIndex(data[w].axis)]
                     = ToFloat(data[w].value)
               /\ Received(c) /\ data'[c].type = "get_object_properties"
               /\ data'[c].name = data[w].object) =>
              resp'[c].data.position[AxisIndex(data[w].axis)]
                  = Round3(ToFloat(data[w].value))]_vars

\* C12 witness: the z position of Cube was written as 1.2346 and a
\* get_object_properties that followed is answered with 1.235
C12_Witness ==
    \E c, w \in Conns :
        /\ pc[c] = "send"
        /\ data[c].type = "get_object_properties"
        /\ data[c].name = "Cube"
        /\ pc[w] = "send"
        /\ data[w].property = "position"
        /\ data[w].value = "1.2346"
        /\ resp[w].type = "update_success"
        /\ scene["Cube"].position[3] = ToFloat("1.2346")
        /\ resp[c].data.position[3] = Round3(ToFloat("1.2346"))
        /\ resp[c].data.position[3] # ToFloat("1.2346")

\* an update of a game property the object has
GamePropertyUpdate(d) ==
    /\ d.type = "update_object_property"
    /\ HasObject(scene, d.object)
    /\ d.property # Absent
    /\ d.property \in PropertyNames(scene[d.object])
    /\ d.value # Absent

\* C13: an update of a game property coerces the raw value to the type of the
\* stored value: a stored number becomes the number parsed from the raw
\* value; a stored boolean becomes true exactly when the lower-cased raw
\* value is one of "true", "1", "yes", and is a boolean after the update; a
\* stored string becomes the raw value.
C13_CoercedToStoredType ==
    [][\A c \in Conns :
        (Received(c) /\ GamePropertyUpdate(data'[c])) =>
            LET d == data'[c]
                old == scene[d.object].game[d.property]
                new == scene'[d.object].game[d.property]
            IN  /\ (old.t \in {"int", "float"} /\ IsNumeric(d.value)) =>
                      (new.t \in {"int", "float"} /\ new.v = ToFloat(d.value))
                /\ old.t = "bool" =>
                      (new.t = "bool" /\ new.b = IsTrueLiteral(d.value))
                /\ old.t = "str" =>
                      (new.t = "str" /\ new.s = d.value)]_vars

\* a toggle_visibility that names an object of the scene
VisibilityToggle(d) == d.type = "toggle_visibility" /\ HasObject(scene, d.object)

\* C14: toggle_visibility on an existing object stores the negation of the
\* object's visibility and answers `visibility_updated` with that new value;
\* nothing else writes a visibility, so a second toggle that follows the
\* first with no other writer in between restores the original value.
C14_ToggleVisibilityInvolution ==
    [][/\ \A c \in Conns :
            /\ (Received(c) /\ VisibilityToggle(data'[c])) =>
                  LET o == data'[c].object
                  IN  /\ scene'[o].visible = ~scene[o].visible
                      /\ resp'[c] = [type |-> "visibility_updated", object |-> o,
                                     visible |-> ~scene[o].visible]
            /\ \A w \in Conns \ {c} :
                  (/\ pc[w] = "send" /\ VisibilityToggle(data[w])
                   /\ resp[w].type = "visibility_updated"
                   /\ scene[data[w].object].visible = resp[w].visible
                   /\ Received(c) /\ data'[c] = data[w]) =>
                  scene'[data[w].object].visible = ~resp[w].visible
       /\ \A o \in DOMAIN scene :
            scene'[o].visible # scene[o].visible =>
                \E c \in Conns : /\ Received(c)
                                 /\ data'[c].type = "toggle_visibility"
                                 /\ data'[c].object = o]_vars

\* C14 witness: Cube was toggled twice, answered hidden and then visible,
\* and is visible as it was at the start
C14_Witness ==
    \E c, w \in Conns :
        /\ c # w
        /\ pc[c] = "send" /\ pc[w] = "send"
        /\ data[c].type = "toggle_visibility" /\ data[c].object = "Cube"
        /\ data[w] = data[c]
        /\ resp[w].type = "visibility_updated" /\ ~resp[w].visible
        /\ resp[c].type = "visibility_updated" /\ resp[c].visible
        /\ scene["Cube"].visible = InitObject.visible

\* C15: set_game_speed with a numeric speed sets the engine's time scale to
\* the number the speed denotes and answers `game_speed_updated` whose
\* `speed` is the value exactly as it was received, not the number.
C15_SpeedEchoedAsReceived ==
    [][\A c \in Conns :
        (/\ Received(c)
         /\ data'[c].type = "set_game_speed"
         /\ data'[c].speed # Absent
         /\ IsNumeric(data'[c].speed)) =>
            /\ timeScale' = ToFloat(data'[c].speed)
            /\ pc'[c] = "send"
            /\ resp'[c] = [type |-> "game_speed_updated", speed |-> data'[c].speed]]_vars

\* C15 witness: the speed "1" was received; the time scale is 1.0 and the
\* response carries "1"
C15_Witness ==
    \E c \in Conns :
        /\ pc[c] = "send"
        /\ data[c].type = "set_game_speed"
        /\ data[c].speed = "1"
        /\ resp[c].type = "game_speed_updated"
        /\ resp[c].speed = "1"
        /\ timeScale = ToFloat("1")

\* a JSON message whose type is none of the known tags
UnknownType(d) == d # BadJson /\ d # NoData /\ d.type \notin KnownTypes

\* C16: a message of an unknown type is dropped: no response is prepared for
\* or sent to any client, the scene, the selection, the mouse flag, the time
\* scale and the registry stay as they were, the connection stays open with
\* its handler back at the receive, and the message that follows is handled
\* as usual.
C16_UnknownTypeIgnored ==
    [][\A c \in Conns :
        /\ (Received(c) /\ UnknownType(data'[c])) =>
              /\ pc' = pc
              /\ resp' = resp
              /\ chan' = chan
              /\ chan[c] = "open"
              /\ c \in clients
              /\ UNCHANGED <<clients, selected_object, mouse_visible, scene,
                             timeScale, engineCmd, tickObjs, tickProps>>
        /\ (/\ UnknownType(data[c])
            /\ Received(c)
            /\ data'[c].type = "get_objects") =>
              (pc'[c] = "send" /\ resp'[c] = ObjectsMsg(scene))]_vars

\* C16 witness: a handler has read a message of an unknown type and waits
\* for its next message, registered, its connection open
C16_Witness ==
    \E c \in Conns :
        /\ pc[c] = "recv"
        /\ UnknownType(data[c])
        /\ resp[c] = NoMsg
        /\ chan[c] = "open"
        /\ c \in clients
        /\ msgs = 1

\* C17: toggle_physics_debug is always answered with an `error` message and
\* changes nothing: not the scene, the selection, the mouse flag, the time
\* scale, the engine, the registry or the connection.
C17_PhysicsDebugAlwaysError ==
    [][\A c \in Conns :
        (Received(c) /\ data'[c].type = "toggle_physics_debug") =>
            /\ pc'[c] = "send"
            /\ resp'[c].type = "error"
            /\ chan' = chan
            /\ UNCHANGED <<clients, selected_object, mouse_visible, scene,
                           timeScale, engineCmd>>]_vars

\* C17 witness: a toggle_physics_debug is being answered with an error
C17_Witness ==
    \E c \in Conns :
        /\ pc[c] = "send"
        /\ data[c].type = "toggle_physics_debug"
        /\ resp[c].type = "error"
        /\ c \in clients

\* C18: the mouse flag is one boolean shared by all connections, true at the
\* start; after n toggle_mouse requests it is true exactly when n is even;
\* each toggle_mouse negates it and answers `mouse_visibility_updated` with
\* the new value; get_game_info reports the flag and leaves it as it is.
C18_MouseFlagParity ==
    /\ [](mouse_visible = (mouseToggles % 2 = 0))
    /\ [][\A c \in Conns :
            /\ (Received(c) /\ data'[c].type = "toggle_mouse") =>
                  /\ mouse_visible' = ~mouse_visible
                  /\ resp'[c] = [type |-> "mouse_visibility_updated",
                                 visible |-> mouse_visible']
            /\ (Received(c) /\ data'[c].type = "get_game_info") =>
                  /\ mouse_visible' = mouse_visible
                  /\ resp'[c].type = "game_info"
                  /\ resp'[c].mouse_visible = mouse_visible]_vars

\* C18 witness: two connections have each toggled the mouse once; the second
\* is answered that the mouse is visible again
C18_Witness ==
    \E c, w \in Conns :
        /\ c # w
        /\ mouseToggles = 2
        /\ pc[c] = "send" /\ pc[w] = "send"
        /\ data[c].type = "toggle_mouse" /\ data[w].type = "toggle_mouse"
        /\ ~resp[w].visible
        /\ resp[c].visible
        /\ mouse_visible

\* the connections whose handler has been entered and has not finished
LiveHandlers == {c \in Conns : pc[c] \notin {"idle", "done"}}

\* C19: the registry is exactly the set of connections whose handler has been
\* entered and has not finished.  A connection is added when its handler is
\* entered, before any message of it is read, and never a second time; it is
\* removed only by its own handler, as that handler finishes.  A gather of a
\* tick is built over the registry as it is at that moment, and the tick
\* delivers only to the connections its gather was built over.
C19_RegistryIsLiveHandlers ==
    /\ [](clients = LiveHandlers)
    /\ [][/\ \A c \in Conns :
               /\ c \in clients' \ clients =>
                     (pc[c] = "idle" /\ pc'[c] = "recv" /\ data'[c] = NoData /\ msgs' = msgs)
               /\ pc[c] # "idle" => pc'[c] # "idle"
               /\ c \in clients \ clients' =>
                     /\ pc[c] # "done" /\ pc'[c] = "done"
                     /\ \A d \in Conns \ {c} : pc'[d] = pc[d]
                     /\ bpc' = bpc
               /\ (tickProps'[c] # tickProps[c] /\ tickProps'[c] # NoMsg) =>
                     (bpc = "props" /\ c \in fanout)
          /\ (bpc' # bpc /\ bpc' \in {"objs", "props"}) =>
                (fanout' = clients /\ clients' = clients)
          /\ tickObjs' # tickObjs => tickObjs' \subseteq fanout]_vars

\* C19 witness: a tick built over the registry of the moment has delivered
\* its object list; a connection that finished before is not among the
\* clients the tick sent to
C19_Witness ==
    \E c, d \in Conns :
        /\ pc[c] = "done"
        /\ c \notin fanout
        /\ bpc = "between"
        /\ d \in tickObjs
        /\ fanout = clients
        /\ clients = {d}

\* the selection changes only in the step that dispatches a
\* get_object_properties, and to the name that request carries
C20_SelectionFrame ==
    [][selected_object' # selected_object =>
          \E c \in Conns : /\ Received(c)
                           /\ data'[c].type = "get_object_properties"
                           /\ selected_object' = data'[c].name]_vars

\* the connection that made the selection was gone when the last tick sent
\* its object list: closed, and not among the clients the tick delivered to
SelectorGone ==
    /\ selectedBy # 0
    /\ chan[selectedBy] = "closed"
    /\ selectedBy \notin tickObjs

\* C20: the selection is changed only by a get_object_properties request (no
\* disconnect, failed lookup, other request or tick alters it); so after the
\* client that made the selection has disconnected, the selection keeps its
\* value and a tick that begins and ends with it sends a message for that
\* name (the snapshot, or the not-found error) to every client that remains:
\* every client the tick sent its object list to that is still registered
\* and open.
C20_SelectionOutlivesSelector ==
    /\ C20_SelectionFrame
    /\ []((/\ bpc \in {"sleep", "dead"}
           /\ ticks > 0
           /\ SelectorGone
           /\ tickSelection # None
           /\ tickSelection = selected_object)
          => \A c \in tickObjs :
                (c \in clients /\ CanSend(c)) =>
                    tickProps[c].type \in {"object_properties", "error"})

====
